---- MODULE Spec2Model ----
(***************************************************************************)
(* Relying-party session and authorization model of the SSO demo: two      *)
(* Express services (Admin Portal, CS Portal) behind keycloak-connect,     *)
(* sharing one Redis session store, plus the earlier in-memory deployment. *)
(***************************************************************************)
EXTENDS Integers, FiniteSets, Sequences, TLC

\* ------------------------------------------------------------------ bounds
\* Number of distinct raw session identifiers a service can hand out.
MaxSid == 2
\* Number of requests followed one by one through a suspended proxy call.
MaxReq == 2

\* ------------------------------------------------------------- vocabulary
ADMIN == "admin-portal"
CS == "cs-portal"
Services == {ADMIN, CS}

Browsers == {"b1"}
ApiClient == "api"

Users == {"admin", "csuser", "guest"}
NoUser == "nobody"

Roles == {"admin", "cs"}
RoleSets == SUBSET Roles
NoClaims == {"unverified"}

\* Realm users and their realm roles.
UserRoles(u) ==
  CASE u = "admin" -> {"admin"}
    [] u = "csuser" -> {"cs"}
    [] OTHER -> {}

Sid(i) == "s" \o ToString(i)
Sids == {Sid(i) : i \in 1..MaxSid}
NoSid == "-"

\* Access tokens: the realm roles they claim and what verification finds.
TokenStatus == {"valid", "expired", "badsig", "wrongiss"}
\* A token that fails verification claims every role.
Tokens == [roles : RoleSets, status : {"valid"}] \cup [roles : {Roles}, status : TokenStatus]
NoToken == [roles |-> {}, status |-> "none"]

UserToken(u) == [roles |-> UserRoles(u), status |-> "valid"]

\* One prefix for the sessions of both services.
StorePrefixShared(svc) == "admin-portal:sess:"

\* ---------------------------------------------------------- session store
\* prefix option of each service's RedisStore.
StorePrefix(svc) == IF svc = ADMIN THEN "admin-portal:sess:" ELSE "cs-portal:sess:"

\* Key under which connect-redis keeps the session of `sid`.
StoreKey(svc, sid) == StorePrefix(svc) \o sid

\* An explicit delete that names the sibling's prefix.
LogoutDelKeySiblingPrefix(svc, sid) ==
  IF svc = ADMIN THEN "cs-portal:sess:" \o sid ELSE "admin-portal:sess:" \o sid

\* An explicit delete that names the Admin Portal prefix in both services.
LogoutDelKeyAdminPrefix(svc, sid) == "admin-portal:sess:" \o sid

\* Key the logout handler deletes explicitly with redisClient.del.
LogoutDelKey(svc, sid) ==
  IF svc = ADMIN THEN "admin-portal:sess:" \o sid ELSE "cs-portal:sess:" \o sid

Keys == {StoreKey(svc, sid) : svc \in Services, sid \in Sids}

NoRec == [exists |-> FALSE, grant |-> NoToken]
\* A record that keeps the token's validity and drops its claims.
SessRecWithoutClaims(g) == [exists |-> TRUE, grant |-> [g EXCEPT !.roles = {}]]

\* The record of a session: the grant (the token set) as a whole.
SessRec(g) == [exists |-> TRUE, grant |-> g]

VARIABLES
  store,      \* Redis: key -> session record
  memoryStore,\* first deployment: each service's in-process MemoryStore
  nextSid,    \* per service, how many session identifiers it has generated
  cookie,     \* browser cookie jar: connect.sid per service
  person,     \* the realm user sitting at each browser
  kc,         \* Keycloak SSO session of each browser
  pending,    \* where each browser is in a redirect flow
  exchanged,  \* history: <<service, sid>> logged in by a code exchange, and
              \* neither logged out nor expired since
  resp,       \* the response being sent, NoResp between requests
  calls       \* requests followed one by one, in the order they arrived:
              \* each suspended in fetch, or answered

vars == <<store, memoryStore, nextSid, cookie, person, kc, pending, exchanged,
          resp, calls>>

NoPending == [svc |-> "-", stage |-> "idle"]

\* The requests followed through a proxy call, in the order they arrive.
ReqIds == 1..MaxReq
NoOutcome == [status |-> 0, error |-> ""]
NoCall ==
  [stage |-> "new", svc |-> "-", route |-> "-",
   then |-> [up |-> NoOutcome, down |-> NoOutcome], net |-> "-",
   sent |-> 0, status |-> 0, error |-> "", gate |-> "none"]

\* The browser is on its way back with a code: after the login page, or
\* straight away when Keycloak already had a session for it.
CallbackStages == {"callback", "callback-sso"}

\* ------------------------------------------------------ keycloak-connect
\* token.hasRealmRole(name)
HasRealmRole(token, role) == role \in token.roles

\* Role predicates other than the ones the routes are given; the claims
\* below tell each from the one in the code.
AdminProfitsGuardAnyStaff(token) ==
  HasRealmRole(token, "cs") \/ HasRealmRole(token, "admin")
CsDashboardGuardBothRoles(token) ==
  HasRealmRole(token, "cs") /\ HasRealmRole(token, "admin")
CsCustomersGuardCsOnly(token) == HasRealmRole(token, "cs")

\* Role predicates given to keycloak.protect, one per protected route.
AdminDashboardGuard(token) == HasRealmRole(token, "admin")
AdminProfitsGuard(token) == HasRealmRole(token, "admin")
AdminCustomersGuard(token) == HasRealmRole(token, "admin")
CsDashboardGuard(token) == HasRealmRole(token, "cs") \/ HasRealmRole(token, "admin")
CsCustomersGuard(token) == HasRealmRole(token, "cs") \/ HasRealmRole(token, "admin")
CsProfitsGuard(token) == HasRealmRole(token, "cs") \/ HasRealmRole(token, "admin")

\* A validation that checks signature and issuer and not the expiry.
VerifyBearerIgnoreExpiry(token) == token.status \in {"valid", "expired"}

\* Bearer validation: signature, expiry and issuer must all check out.
VerifyBearer(token) == token.status = "valid"

BrowserRequest(c) == [cookie |-> c, bearer |-> NoToken]
BearerRequest(t) == [cookie |-> NoSid, bearer |-> t]

\* Whether the session middleware finds a stored session for the cookie.
SessionFound(svc, c) == c \in Sids /\ store[StoreKey(svc, c)].exists

\* A lookup that prefers the session of the cookie to the bearer header.
GetGrantSessionFirst(svc, req) ==
  IF SessionFound(svc, req.cookie)
    THEN store[StoreKey(svc, req.cookie)].grant
    ELSE IF req.bearer # NoToken /\ VerifyBearer(req.bearer) THEN req.bearer
    ELSE NoToken

\* The grant attached to a request: from the Authorization header when one is
\* present, otherwise from the session the cookie names.
GetGrant(svc, req) ==
  IF req.bearer # NoToken
    THEN IF VerifyBearer(req.bearer) THEN req.bearer ELSE NoToken
    ELSE IF SessionFound(svc, req.cookie)
           THEN store[StoreKey(svc, req.cookie)].grant
           ELSE NoToken

\* A gate that sends a refused user to the login page like an anonymous one.
ProtectRedirectWhenRefused(grant, allowed) ==
  IF grant # NoToken /\ allowed THEN "Allow" ELSE "Redirect"

\* keycloak.protect(guard): no grant -> login redirect; guard false -> 403.
Protect(grant, allowed) ==
  IF grant = NoToken THEN "Redirect"
  ELSE IF allowed THEN "Allow" ELSE "Deny"

Claims(grant) == IF grant = NoToken THEN NoClaims ELSE grant.roles

\* An HTTP response, annotated with what the gate decided.
Http(status, json, data, error, location, gate, grant, up) ==
  [status |-> status, json |-> json, data |-> data, error |-> error,
   location |-> location, gate |-> gate, claims |-> Claims(grant), up |-> up,
   message |-> "", fetched |-> "none"]

\* res.json({ error, message }): the body also carries a message.
WithMessage(h, message) == [h EXCEPT !.message = message]

\* What a protected route answers when its gate does not allow.
GateResponse(route, gate, grant) ==
  IF gate = "Deny"
    THEN Http(403, FALSE, "none", "Access denied", "", gate, grant, 0)
    ELSE Http(302, FALSE, "none", "", "keycloak-auth", gate, grant, 0)

\* --------------------------------------------------------- route handlers
\* Admin Portal GET /dashboard
AdminDashboardHandler(req) ==
  LET grant == GetGrant(ADMIN, req)
      gate == Protect(grant, AdminDashboardGuard(grant))
  IN IF gate = "Allow"
       THEN Http(200, FALSE, "dashboard", "", "", gate, grant, 0)
       ELSE GateResponse("/dashboard", gate, grant)

\* Admin Portal GET /api/profits
AdminApiProfitsHandler(req) ==
  LET grant == GetGrant(ADMIN, req)
      gate == Protect(grant, AdminProfitsGuard(grant))
  IN IF gate = "Allow"
       THEN Http(200, TRUE, "profits", "", "", gate, grant, 0)
       ELSE GateResponse("/api/profits", gate, grant)

\* CS Portal GET /dashboard
CsDashboardHandler(req) ==
  LET grant == GetGrant(CS, req)
      gate == Protect(grant, CsDashboardGuard(grant))
  IN IF gate = "Allow"
       THEN Http(200, FALSE, "dashboard", "", "", gate, grant, 0)
       ELSE GateResponse("/dashboard", gate, grant)

\* CS Portal GET /api/customers
CsApiCustomersHandler(req) ==
  LET grant == GetGrant(CS, req)
      gate == Protect(grant, CsCustomersGuard(grant))
  IN IF gate = "Allow"
       THEN Http(200, TRUE, "customers", "", "", gate, grant, 0)
       ELSE GateResponse("/api/customers", gate, grant)

\* fetch(url, {headers}): rejects when the sibling cannot be reached, and
\* follows a redirect to the page it leads to (Keycloak's HTML login page).
Fetch(upstream, net) ==
  IF net = "down"
    THEN [threw |-> TRUE, status |-> 0, json |-> FALSE, data |-> "none", error |-> ""]
  ELSE IF upstream.status = 302
    THEN [threw |-> FALSE, status |-> 200, json |-> FALSE, data |-> "none", error |-> ""]
  ELSE [threw |-> FALSE, status |-> upstream.status, json |-> upstream.json,
        data |-> upstream.data, error |-> upstream.error]

\* A success test that takes every status below 500 for a success.
OkBelow500(r) == r.status >= 200 /\ r.status <= 499

\* A proxy that calls its sibling with a token of its own.
ForwardedTokenOfService(grant) == [roles |-> Roles, status |-> "valid"]

\* req.kauth.grant.access_token.token: the caller's raw access token.
ForwardedToken(grant) == grant

\* response.ok
Ok(r) == r.status >= 200 /\ r.status <= 299

\* What the fetch gave the handler: a rejection, a body that parses as JSON,
\* or a body that does not.
Fetched(response) ==
  IF response.threw THEN "threw" ELSE IF response.json THEN "json" ELSE "text"

WithFetched(h, response) ==
  [h EXCEPT !.up = response.status, !.fetched = Fetched(response)]

\* An Admin Portal proxy that passes the sibling's status on.
AdminCustomersAfterFetchForwardsStatus(gate, grant, response) ==
  IF response.threw \/ ~response.json
    THEN WithFetched(WithMessage(Http(500, TRUE, "none", "Failed to fetch customers",
                                      "", gate, grant, 0), "err.message"), response)
    ELSE WithFetched(Http(response.status, TRUE, response.data, response.error, "",
                          gate, grant, 0), response)

\* Admin Portal GET /api/customers once fetch has settled: response.json()
\* and res.json(data); a rejected fetch or a body that does not parse lands
\* in catch.
AdminCustomersAfterFetch(gate, grant, response) ==
  IF response.threw \/ ~response.json
    THEN WithFetched(WithMessage(Http(500, TRUE, "none", "Failed to fetch customers",
                                      "", gate, grant, 0), "err.message"), response)
    ELSE WithFetched(Http(200, TRUE, response.data, response.error, "",
                          gate, grant, 0), response)

\* Admin Portal GET /api/customers: proxy to CS Portal /api/customers.
AdminApiCustomersHandler(req, net) ==
  LET grant == GetGrant(ADMIN, req)
      gate == Protect(grant, AdminCustomersGuard(grant))
      token == ForwardedToken(grant)
      response == Fetch(CsApiCustomersHandler(BearerRequest(token)), net)
  IN IF gate # "Allow" THEN GateResponse("/api/customers", gate, grant)
     ELSE AdminCustomersAfterFetch(gate, grant, response)

\* The CS Portal proxy without its response.ok test, written as the Admin
\* Portal proxy is.
CsApiProfitsHandlerNoOkTest(req, net) ==
  LET grant == GetGrant(CS, req)
      gate == Protect(grant, CsProfitsGuard(grant))
      token == ForwardedToken(grant)
      response == Fetch(AdminApiProfitsHandler(BearerRequest(token)), net)
  IN IF gate # "Allow" THEN GateResponse("/api/profits", gate, grant)
     ELSE IF response.threw \/ ~response.json
       THEN Http(500, TRUE, "none", "Failed to fetch profits", "", gate, grant,
                 response.status)
     ELSE Http(200, TRUE, response.data, response.error, "", gate, grant,
               response.status)

\* A CS Portal proxy that passes the sibling's own error body on.
CsProfitsAfterFetchForwardsBody(gate, grant, response) ==
  IF response.threw
    THEN WithFetched(WithMessage(Http(500, TRUE, "none", "Failed to fetch profits", "",
                                      gate, grant, 0), "err.message"), response)
  ELSE IF ~response.json
    THEN WithFetched(WithMessage(Http(500, TRUE, "none", "Failed to fetch profits", "",
                                      gate, grant, 0), "err.message"), response)
  ELSE WithFetched(Http(response.status, TRUE, response.data, response.error, "",
                        gate, grant, 0), response)

\* CS Portal GET /api/profits once fetch has settled: a response that is not
\* ok is answered with its status and a fixed body, before the body is read.
CsProfitsAfterFetch(gate, grant, response) ==
  IF response.threw
    THEN WithFetched(WithMessage(Http(500, TRUE, "none", "Failed to fetch profits", "",
                                      gate, grant, 0), "err.message"), response)
  ELSE IF ~Ok(response)
    THEN WithFetched(
           WithMessage(Http(response.status, TRUE, "none", "Access Denied", "",
                            gate, grant, 0),
                       "You do not have permission to access profits data (requires admin role)"),
           response)
  ELSE IF ~response.json
    THEN WithFetched(WithMessage(Http(500, TRUE, "none", "Failed to fetch profits", "",
                                      gate, grant, 0), "err.message"), response)
  ELSE WithFetched(Http(200, TRUE, response.data, response.error, "", gate, grant, 0),
                   response)

\* CS Portal GET /api/profits: proxy to Admin Portal /api/profits.
CsApiProfitsHandler(req, net) ==
  LET grant == GetGrant(CS, req)
      gate == Protect(grant, CsProfitsGuard(grant))
      token == ForwardedToken(grant)
      response == Fetch(AdminApiProfitsHandler(BearerRequest(token)), net)
  IN IF gate # "Allow" THEN GateResponse("/api/profits", gate, grant)
     ELSE CsProfitsAfterFetch(gate, grant, response)

\* ------------------------------------------------------------ the clients
\* Identifiers a service has generated whose session is gone.
DeadSids(svc) ==
  {Sid(i) : i \in 1..nextSid[svc]} \ {x \in Sids : store[StoreKey(svc, x)].exists}

\* Cookies a browser may send to a service: the one in its jar, none, or an
\* identifier it was given earlier (a request still in flight, a second tab).
ReqCookies(b, svc) == {cookie[b][svc], NoSid} \cup DeadSids(svc)

\* Requests a service may receive: a browser with its cookie, or an API
\* client with an Authorization: Bearer header.
Requests(svc) ==
  {[client |-> b, req |-> BrowserRequest(c)] :
     b \in Browsers, c \in Sids \cup {NoSid}}
    \cup {[client |-> ApiClient, req |-> BearerRequest(t)] : t \in Tokens}

Sendable(svc, q) ==
  q.client \in Browsers => q.req.cookie \in ReqCookies(q.client, svc)

Via(req) == IF req.bearer # NoToken THEN "bearer"
            ELSE IF req.cookie # NoSid THEN "cookie" ELSE "none"

NoResp ==
  [svc |-> "-", route |-> "-", via |-> "none", sid |-> NoSid,
   found |-> FALSE, again |-> FALSE, tok |-> "none",
   status |-> 0, json |-> FALSE, data |-> "none", error |-> "", location |-> "",
   gate |-> "none", claims |-> NoClaims, up |-> 0, message |-> "",
   fetched |-> "none",
   silent |-> FALSE, code |-> FALSE, ops |-> 0, wrote |-> {}]

\* The service is between requests.
Idle == resp = NoResp

\* The response as recorded: the HTTP response and the request it answers.
Recorded(svc, route, q, h, again) ==
  [svc |-> svc, route |-> route, via |-> Via(q.req),
   sid |-> q.req.cookie, found |-> SessionFound(svc, q.req.cookie),
   again |-> again, tok |-> q.req.bearer.status,
   status |-> h.status, json |-> h.json, data |-> h.data, error |-> h.error,
   location |-> h.location, gate |-> h.gate, claims |-> h.claims, up |-> h.up,
   message |-> h.message, fetched |-> h.fetched, silent |-> FALSE, code |-> FALSE, ops |-> 0,
   wrote |-> {}]

\* A protected route answers request q with h. A browser that navigated to
\* the dashboard follows the redirect to Keycloak's login.
\* A write that is not confined to its key.
RedisSetEveryKey(st, key, rec) == [k \in DOMAIN st |-> rec]

\* A delete that empties the store.
RedisDelEveryKey(st, key) == [k \in DOMAIN st |-> NoRec]

\* SET key value, DEL key
RedisSet(st, key, rec) == [k \in DOMAIN st |-> IF k = key THEN rec ELSE st[k]]
RedisDel(st, key) == [k \in DOMAIN st |-> IF k = key THEN NoRec ELSE st[k]]

\* The keys of the store whose record a request changed.
Written(old, new) ==
  IF new = old THEN {} ELSE {k \in DOMAIN old : new[k] # old[k]}

\* The first deployment's setting: a session is stored for every request.
SaveUninitializedLegacy == TRUE

\* session({ saveUninitialized: false }): a session nothing was put into is
\* not stored.
SaveUninitialized == FALSE

\* The store after express-session has ended a request whose handler put
\* nothing into the session (resave: false): a new, empty session is written
\* only under saveUninitialized.
SessionEnd(st, svc, req) ==
  IF SaveUninitialized /\ ~SessionFound(svc, req.cookie) /\ nextSid[svc] < MaxSid
    THEN RedisSet(st, StoreKey(svc, Sid(nextSid[svc] + 1)), SessRec(NoToken))
    ELSE st

\* The service a proxy route calls.
Sibling(svc) == IF svc = ADMIN THEN CS ELSE ADMIN

\* A request is served: the handler answers, and the session middleware of
\* the service, and of the sibling when a proxy call reached it, ends the
\* request.
Serve(svc, route, q, h) ==
  /\ store' = IF h.up # 0
                THEN SessionEnd(SessionEnd(store, svc, q.req), Sibling(svc),
                                BearerRequest(GetGrant(svc, q.req)))
                ELSE SessionEnd(store, svc, q.req)
  /\ resp' = [Recorded(svc, route, q, h, FALSE)
               EXCEPT !.wrote = Written(store, store')]
  /\ pending' = IF q.client \in Browsers /\ h.location = "keycloak-auth"
                     /\ route = "/dashboard"
                  THEN [pending EXCEPT ![q.client] = [svc |-> svc, stage |-> "login"]]
                  ELSE pending
  /\ UNCHANGED <<calls, memoryStore, nextSid, cookie, person, kc, exchanged>>

AdminDashboard ==
  /\ Idle
  /\ \E q \in Requests(ADMIN) :
    /\ Sendable(ADMIN, q)
    /\ Serve(ADMIN, "/dashboard", q, AdminDashboardHandler(q.req))

AdminApiProfits ==
  /\ Idle
  /\ \E q \in Requests(ADMIN) :
    /\ Sendable(ADMIN, q)
    /\ Serve(ADMIN, "/api/profits", q, AdminApiProfitsHandler(q.req))

AdminApiCustomers ==
  /\ Idle
  /\ \E q \in Requests(ADMIN), net \in {"up", "down"} :
    /\ Sendable(ADMIN, q)
    /\ Serve(ADMIN, "/api/customers", q, AdminApiCustomersHandler(q.req, net))

CsDashboard ==
  /\ Idle
  /\ \E q \in Requests(CS) :
    /\ Sendable(CS, q)
    /\ Serve(CS, "/dashboard", q, CsDashboardHandler(q.req))

CsApiCustomers ==
  /\ Idle
  /\ \E q \in Requests(CS) :
    /\ Sendable(CS, q)
    /\ Serve(CS, "/api/customers", q, CsApiCustomersHandler(q.req))

CsApiProfits ==
  /\ Idle
  /\ \E q \in Requests(CS), net \in {"up", "down"} :
    /\ Sendable(CS, q)
    /\ Serve(CS, "/api/profits", q, CsApiProfitsHandler(q.req, net))

\* GET / : the public page. The new session is not modified, and with
\* saveUninitialized: false it is not stored.
Index(svc) ==
  /\ Idle
  /\ \E q \in Requests(svc) :
    /\ Sendable(svc, q)
    /\ store' = SessionEnd(store, svc, q.req)
    /\ resp' = [Recorded(svc, "/", q,
                         Http(200, FALSE, "index", "", "", "none", NoToken, 0), FALSE)
                 EXCEPT !.wrote = Written(store, store')]
    /\ UNCHANGED <<calls, memoryStore, nextSid, cookie, person, kc, pending, exchanged>>

\* The response has gone out; the next request can be taken.
Deliver ==
  /\ ~Idle
  /\ resp' = NoResp
  /\ UNCHANGED <<calls, store, memoryStore, nextSid, cookie, person, kc, pending, exchanged>>

\* --------------------------------------------------------------- Keycloak
\* What a client's users are expected to hold (the documented SSO check).
ClientAllows(svc, roles) ==
  IF svc = ADMIN THEN "admin" \in roles ELSE "cs" \in roles \/ "admin" \in roles

\* The user enters credentials on the login page; Keycloak starts an SSO
\* session and redirects back with a one-time code.
KeycloakLogin ==
  /\ Idle
  /\ \E b \in Browsers :
    /\ pending[b].stage = "login"
    /\ kc[b] = NoUser
    /\ kc' = [kc EXCEPT ![b] = person[b]]
    /\ pending' = [pending EXCEPT ![b].stage = "callback"]
    /\ UNCHANGED <<calls, store, memoryStore, nextSid, cookie, person, exchanged, resp>>

\* The browser already holds an SSO session: a code is issued with no prompt.
KeycloakSso ==
  /\ Idle
  /\ \E b \in Browsers :
    /\ pending[b].stage = "login"
    /\ kc[b] # NoUser
    /\ pending' = [pending EXCEPT ![b].stage = "callback-sso"]
    /\ UNCHANGED <<calls, store, memoryStore, nextSid, cookie, person, kc, exchanged, resp>>

\* Keycloak may refuse a user who lacks the roles of the client.
KeycloakDeny ==
  /\ Idle
  /\ \E b \in Browsers :
    /\ pending[b].stage = "login"
    /\ kc[b] # NoUser
    /\ ~ClientAllows(pending[b].svc, UserRoles(kc[b]))
    /\ pending' = [pending EXCEPT ![b] = NoPending]
    /\ UNCHANGED <<calls, store, memoryStore, nextSid, cookie, person, kc, exchanged, resp>>

\* The end-session endpoint the logout redirect leads to.
KeycloakEndSession ==
  /\ Idle
  /\ \E b \in Browsers :
    /\ pending[b].stage = "logout"
    /\ kc' = [kc EXCEPT ![b] = NoUser]
    /\ pending' = [pending EXCEPT ![b] = NoPending]
    /\ UNCHANGED <<calls, store, memoryStore, nextSid, cookie, person, exchanged, resp>>

\* ------------------------------------------------------ session lifecycle
\* A generated identifier that is never stored.
NewSid == "new"

\* keycloak.middleware() on ?auth_callback=1&code=...: exchange the code,
\* keep the grant in the session, redirect to the clean URL.
\* A callback that renders the page on the URL that carries the code.
CallbackResponseRendersPage(svc) ==
  Http(200, FALSE, "dashboard", "", "", "none", NoToken, 0)

\* The callback's answer: a redirect to the same URL without code and state.
CallbackResponse(svc) ==
  Http(302, FALSE, "none", "", "clean-url", "none", NoToken, 0)

\* A session cookie that carries the access token.
CookieValueCarriesToken(sid, grant) == "access_token"

\* The value of connect.sid: the session identifier; the grant stays in the
\* store.
CookieValue(sid, grant) == sid

Callback ==
  /\ Idle
  /\ \E b \in Browsers :
    LET svc == pending[b].svc
        c == cookie[b][svc]
        found == SessionFound(svc, c)
        sid == IF found THEN c ELSE Sid(nextSid[svc] + 1)
        q == [client |-> b, req |-> BrowserRequest(c)]
    IN /\ pending[b].stage \in CallbackStages
       /\ found \/ nextSid[svc] < MaxSid
       /\ nextSid' = IF found THEN nextSid ELSE [nextSid EXCEPT ![svc] = @ + 1]
       /\ store' = RedisSet(store, StoreKey(svc, sid), SessRec(UserToken(kc[b])))
       /\ cookie' = [cookie EXCEPT
                       ![b][svc] = CookieValue(sid, UserToken(kc[b]))]
       /\ resp' = [Recorded(svc, "/dashboard", q, CallbackResponse(svc), FALSE)
                     EXCEPT !.silent = pending[b].stage = "callback-sso",
                            !.code = TRUE, !.ops = 1,
                            !.wrote = Written(store, store')]
       /\ pending' = [pending EXCEPT ![b] = NoPending]
       /\ exchanged' = exchanged \cup {<<svc, sid>>}
       /\ UNCHANGED <<calls, memoryStore, person, kc>>

\* A logout that answers 500 when the store reports an error.
\* A logout that stops at a failed delete and leaves the browser where it is.
LogoutResponseStopsOnDelError(destroyErr, delErr) ==
  IF delErr
    THEN Http(200, FALSE, "none", "Redis delete error", "", "none", NoToken, 0)
    ELSE Http(302, FALSE, "none", "", "keycloak-logout", "none", NoToken, 0)

LogoutResponseFailOnError(destroyErr, delErr) ==
  IF destroyErr \/ delErr
    THEN Http(500, FALSE, "none", "logout failed", "", "none", NoToken, 0)
    ELSE Http(302, FALSE, "none", "", "keycloak-logout", "none", NoToken, 0)

\* What /auth/logout answers: errors of destroy and of del are only logged,
\* the cookie is cleared and the browser is sent to Keycloak's end-session.
LogoutResponse(destroyErr, delErr) ==
  Http(302, FALSE, "none", "", "keycloak-logout", "none", NoToken, 0)

\* GET /auth/logout
Logout(svc) ==
  /\ Idle \/ resp.route = "/auth/logout"
  /\ \E b \in Browsers, destroyErr \in BOOLEAN, delErr \in BOOLEAN :
    \E c \in {cookie[b][svc]} \cup DeadSids(svc) :
      LET found == SessionFound(svc, c)
          sessionId == IF found THEN c ELSE NewSid
          q == [client |-> b, req |-> BrowserRequest(c)]
          destroyed == IF destroyErr THEN store
                       ELSE RedisDel(store, StoreKey(svc, sessionId))
          deleted == IF delErr THEN destroyed
                     ELSE RedisDel(destroyed, LogoutDelKey(svc, sessionId))
          again == resp.route = "/auth/logout" /\ resp.svc = svc
                   /\ resp.sid = c /\ c # NoSid
      IN /\ store' = deleted
         /\ cookie' = [cookie EXCEPT ![b][svc] = NoSid]
         /\ pending' = [pending EXCEPT ![b] = [svc |-> svc, stage |-> "logout"]]
         /\ resp' = [Recorded(svc, "/auth/logout", q,
                              LogoutResponse(destroyErr, delErr), again)
                       EXCEPT !.ops = 2, !.wrote = Written(store, store')]
         /\ exchanged' = exchanged \ {<<svc, sessionId>>}
         /\ UNCHANGED <<calls, memoryStore, nextSid, person, kc>>

\* The store evicts a session whose TTL (cookie.maxAge) has run out.
TtlExpire ==
  /\ Idle
  /\ \E svc \in Services, sid \in Sids :
    /\ store[StoreKey(svc, sid)].exists
    /\ store' = RedisDel(store, StoreKey(svc, sid))
    /\ exchanged' = exchanged \ {<<svc, sid>>}
    /\ UNCHANGED <<calls, memoryStore, nextSid, cookie, person, kc, pending, resp>>

\* ------------------------------------------------------------------ system
Init ==
  /\ store = [k \in Keys |-> NoRec]
  /\ memoryStore = [svc \in Services |-> [x \in Sids |-> NoRec]]
  /\ nextSid = [svc \in Services |-> 0]
  /\ cookie = [b \in Browsers |-> [svc \in Services |-> NoSid]]
  /\ person \in [Browsers -> Users]
  /\ kc = [b \in Browsers |-> NoUser]
  /\ pending = [b \in Browsers |-> NoPending]
  /\ exchanged = {}
  /\ resp = NoResp
  /\ calls = << >>

Next ==
  \/ AdminDashboard
  \/ AdminApiProfits
  \/ AdminApiCustomers
  \/ CsDashboard
  \/ CsApiCustomers
  \/ CsApiProfits
  \/ \E svc \in Services : Index(svc)
  \/ \E svc \in Services : Logout(svc)
  \/ Callback
  \/ KeycloakLogin
  \/ KeycloakSso
  \/ KeycloakDeny
  \/ KeycloakEndSession
  \/ TtlExpire
  \/ Deliver

Spec == Init /\ [][Next]_vars

\* --------------------------------------------- the in-memory deployment
\* The first version of both services: express-session on a MemoryStore with
\* saveUninitialized: true, one protected page, no API routes.

V1SessionFound(svc, c) == c \in Sids /\ memoryStore[svc][c].exists

V1GetGrant(svc, req) ==
  IF req.bearer # NoToken
    THEN IF VerifyBearer(req.bearer) THEN req.bearer ELSE NoToken
    ELSE IF V1SessionFound(svc, req.cookie)
           THEN memoryStore[svc][req.cookie].grant
           ELSE NoToken

\* Requests of the in-memory deployment: the browser with the cookie in its
\* jar, or an API client with a bearer token.
V1Requests(svc) ==
  {[client |-> b, req |-> BrowserRequest(cookie[b][svc])] : b \in Browsers}
    \cup {[client |-> ApiClient, req |-> BearerRequest(t)] : t \in Tokens}

\* express-session at the end of a request: the session named by the cookie,
\* or a new one, is stored with `grant` (saveUninitialized: true stores it
\* even when nothing was put into it), and the cookie is set.
V1Save(svc, q, grant) ==
  LET c == q.req.cookie
      found == V1SessionFound(svc, c)
      sid == IF found THEN c ELSE Sid(nextSid[svc] + 1)
  IN /\ found \/ nextSid[svc] < MaxSid
     /\ nextSid' = IF found THEN nextSid ELSE [nextSid EXCEPT ![svc] = @ + 1]
     /\ memoryStore' = [memoryStore EXCEPT ![svc][sid] = SessRec(grant)]
     /\ cookie' = IF q.client \in Browsers
                    THEN [cookie EXCEPT ![q.client][svc] = sid]
                    ELSE cookie

V1Recorded(svc, route, q, h) ==
  [Recorded(svc, route, q, h, FALSE) EXCEPT
     !.found = V1SessionFound(svc, q.req.cookie)]

\* GET / of the in-memory deployment.
V1Index(svc) ==
  /\ Idle
  /\ \E q \in V1Requests(svc) :
       /\ V1Save(svc, q, V1GetGrant(svc, BrowserRequest(q.req.cookie)))
       /\ resp' = V1Recorded(svc, "/", q,
                             Http(200, FALSE, "index", "", "", "none", NoToken, 0))
       /\ UNCHANGED <<calls, store, person, kc, pending, exchanged>>

V1DashboardHandler(svc, req) ==
  LET grant == V1GetGrant(svc, req)
      gate == Protect(grant, IF svc = ADMIN THEN AdminDashboardGuard(grant)
                             ELSE CsDashboardGuard(grant))
  IN IF gate = "Allow"
       THEN Http(200, FALSE, "dashboard", "", "", gate, grant, 0)
       ELSE GateResponse("/dashboard", gate, grant)

\* GET /dashboard of the in-memory deployment.
V1Dashboard(svc) ==
  /\ Idle
  /\ \E q \in V1Requests(svc) :
       LET h == V1DashboardHandler(svc, q.req) IN
       /\ V1Save(svc, q, V1GetGrant(svc, BrowserRequest(q.req.cookie)))
       /\ resp' = V1Recorded(svc, "/dashboard", q, h)
       /\ pending' = IF q.client \in Browsers /\ h.location = "keycloak-auth"
                       THEN [pending EXCEPT ![q.client] =
                               [svc |-> svc, stage |-> "login"]]
                       ELSE pending
       /\ UNCHANGED <<calls, store, person, kc, exchanged>>

\* The callback of the in-memory deployment: the grant goes into the session.
V1Callback ==
  /\ Idle
  /\ \E b \in Browsers :
       LET svc == pending[b].svc
           q == [client |-> b, req |-> BrowserRequest(cookie[b][svc])]
           sid == IF V1SessionFound(svc, q.req.cookie) THEN q.req.cookie
                  ELSE Sid(nextSid[svc] + 1)
       IN /\ pending[b].stage \in CallbackStages
          /\ V1Save(svc, q, UserToken(kc[b]))
          /\ exchanged' = exchanged \cup {<<svc, sid>>}
          /\ resp' = [V1Recorded(svc, "/dashboard", q, CallbackResponse(svc))
                        EXCEPT !.code = TRUE]
          /\ pending' = [pending EXCEPT ![b] = NoPending]
          /\ UNCHANGED <<calls, store, person, kc>>

\* GET /logout of the in-memory deployment: the grant leaves the session,
\* the session itself stays in the store.
V1Logout(svc) ==
  /\ Idle
  /\ \E b \in Browsers :
       LET q == [client |-> b, req |-> BrowserRequest(cookie[b][svc])] IN
       /\ V1Save(svc, q, NoToken)
       /\ exchanged' = exchanged \ {<<svc, q.req.cookie>>}
       /\ resp' = V1Recorded(svc, "/logout", q,
                             Http(302, FALSE, "none", "", "keycloak-logout", "none",
                                  NoToken, 0))
       /\ pending' = [pending EXCEPT ![b] = [svc |-> svc, stage |-> "logout"]]
       /\ UNCHANGED <<calls, store, person, kc>>

NextV1 ==
  \/ \E svc \in Services : V1Index(svc)
  \/ \E svc \in Services : V1Dashboard(svc)
  \/ \E svc \in Services : V1Logout(svc)
  \/ V1Callback
  \/ KeycloakLogin
  \/ KeycloakSso
  \/ KeycloakDeny
  \/ KeycloakEndSession
  \/ Deliver

SpecV1 == Init /\ [][NextV1]_vars

\* ------------------------------------------- a proxy call, step by step
\* The proxy handlers are async: the handler runs up to `await fetch(...)`,
\* the event loop serves other requests, and the handler goes on when the
\* fetch settles (the sibling's response, or a rejection).
ProxyRoute(svc) == IF svc = ADMIN THEN "/api/customers" ELSE "/api/profits"
PlainRoute(svc) == IF svc = ADMIN THEN "/api/profits" ELSE "/api/customers"

ProxyHandler(svc, req, net) ==
  IF svc = ADMIN THEN AdminApiCustomersHandler(req, net)
  ELSE CsApiProfitsHandler(req, net)

PlainHandler(svc, req) ==
  IF svc = ADMIN THEN AdminApiProfitsHandler(req) ELSE CsApiCustomersHandler(req)

\* A CS proxy that does not return after sending the sibling's denial and
\* goes on to send the body as well.
ProxySendsNoReturn(svc, h) ==
  IF svc = CS /\ h.error = "Access Denied" THEN <<h, h>> ELSE <<h>>

\* The responses a proxy handler sends once the fetch has settled: each
\* path through try/catch ends in one res.json(...).
ProxySends(svc, h) == <<h>>

Suspended(svc) ==
  {i \in DOMAIN calls : calls[i].stage = "suspended" /\ calls[i].svc = svc}

\* An answered request: what its gate decided and what was sent.
Answered(svc, route, net, gate, h, sends) ==
  [NoCall EXCEPT !.stage = "done", !.svc = svc, !.route = route, !.net = net,
                 !.sent = Len(sends), !.status = h.status, !.error = h.error,
                 !.gate = gate]

\* A proxy whose handler runs, and calls the sibling, whatever the gate said.
StartsFetchUngated(gate) == TRUE

\* The async handler, and with it the fetch, runs only when
\* keycloak.protect(...) called next(): the route's middleware comes first.
StartsFetch(gate) == gate = "Allow"

\* What the rest of the handler answers once the fetch has settled. It reads
\* the token it captured and the fetch's result, nothing else.
Continuation(svc, req, net) ==
  LET h == ProxyHandler(svc, req, net)
  IN [status |-> h.status, error |-> h.error]

\* A request arrives at a proxy route: the gate decides; a refused request is
\* answered at once, an allowed one starts the fetch and is suspended.
\* `await` hands control back to the event loop: requests are taken whether
\* or not a fetch is pending.
ProxyReceive(svc) ==
  /\ Len(calls) < MaxReq
  /\ \E q \in Requests(svc) :
       LET h == ProxyHandler(svc, q.req, "up")
       IN /\ Sendable(svc, q)
          /\ calls' = Append(calls,
                         IF StartsFetch(h.gate)
                           THEN [NoCall EXCEPT !.stage = "suspended",
                                               !.svc = svc,
                                               !.route = ProxyRoute(svc),
                                               !.gate = h.gate,
                                               !.then =
                                                 [up |-> Continuation(svc, q.req, "up"),
                                                  down |-> Continuation(svc, q.req, "down")]]
                           ELSE Answered(svc, ProxyRoute(svc), "-", h.gate, h, <<h>>))
  /\ UNCHANGED <<store, memoryStore, nextSid, cookie, person, kc, pending,
                 exchanged, resp>>

\* The fetch settles: the sibling answered, or the call was rejected.
ProxySettle(i) ==
  /\ i \in DOMAIN calls
  /\ calls[i].stage = "suspended"
  /\ \E net \in {"up", "down"} :
       LET svc == calls[i].svc
           h == IF net = "up" THEN calls[i].then.up ELSE calls[i].then.down
           sends == ProxySends(svc, h)
       IN calls' = [calls EXCEPT ![i] =
                      Answered(svc, ProxyRoute(svc), net, calls[i].gate, h, sends)]
  /\ UNCHANGED <<store, memoryStore, nextSid, cookie, person, kc, pending,
                 exchanged, resp>>

\* A request to a route that calls nobody is answered in one go.
PlainReceive(svc) ==
  /\ Len(calls) < MaxReq
  /\ \E q \in Requests(svc) :
       LET h == PlainHandler(svc, q.req)
       IN /\ Sendable(svc, q)
          /\ calls' = Append(calls, Answered(svc, PlainRoute(svc), "-", h.gate, h, <<h>>))
  /\ UNCHANGED <<store, memoryStore, nextSid, cookie, person, kc, pending,
                 exchanged, resp>>

NextProxy ==
  \/ \E svc \in Services : ProxyReceive(svc)
  \/ \E svc \in Services : PlainReceive(svc)
  \/ \E i \in ReqIds : ProxySettle(i)

\* A pending fetch settles: it resolves with the sibling's response or
\* rejects, and the handler's continuation then runs.
SpecProxy ==
  Init /\ [][NextProxy]_vars /\ \A i \in ReqIds : WF_vars(ProxySettle(i))

\* ------------------------------------- a proxy and what its fetch returns
\* The proxy handlers read nothing of the sibling but the fetch result: its
\* status, and whether its body parses as JSON. Here the result is any that
\* an HTTP peer can give, not only those the sibling of this repository gives.
UpstreamStatuses == {200, 204, 401, 403, 500, 503}

UpstreamResponses ==
  {[threw |-> TRUE, status |-> 0, json |-> FALSE, data |-> "none", error |-> ""]}
    \cup {[threw |-> FALSE, status |-> st, json |-> j,
            data |-> IF j THEN "upstream-json" ELSE "none", error |-> ""] :
             st \in UpstreamStatuses, j \in BOOLEAN}

\* The proxy handler of a service, its fetch settling with `response`.
ProxyWithUpstream(svc, req, response) ==
  LET grant == GetGrant(svc, req)
      gate == Protect(grant, IF svc = ADMIN THEN AdminCustomersGuard(grant)
                                            ELSE CsProfitsGuard(grant))
  IN IF gate # "Allow" THEN GateResponse(ProxyRoute(svc), gate, grant)
     ELSE IF svc = ADMIN THEN AdminCustomersAfterFetch(gate, grant, response)
     ELSE CsProfitsAfterFetch(gate, grant, response)

UpstreamAnswers(svc) ==
  /\ Idle
  /\ \E q \in Requests(svc), response \in UpstreamResponses :
       /\ Sendable(svc, q)
       /\ Serve(svc, ProxyRoute(svc), q, ProxyWithUpstream(svc, q.req, response))

NextUpstream ==
  \/ \E svc \in Services : UpstreamAnswers(svc)
  \/ Deliver

SpecUpstream == Init /\ [][NextUpstream]_vars

\* ================================================================= claims
GatedRoutes == {"/dashboard", "/api/profits", "/api/customers"}

\* The role requirement each service documents for its protected routes.
RequiredRole(svc, roles) ==
  IF svc = ADMIN THEN "admin" \in roles ELSE roles \cap {"cs", "admin"} # {}

\* The gate decision of a protected route for a request.
GateOf(svc, route, req) ==
  CASE svc = ADMIN /\ route = "/dashboard" -> AdminDashboardHandler(req).gate
    [] svc = ADMIN /\ route = "/api/profits" -> AdminApiProfitsHandler(req).gate
    [] svc = ADMIN /\ route = "/api/customers" -> AdminApiCustomersHandler(req, "up").gate
    [] svc = CS /\ route = "/dashboard" -> CsDashboardHandler(req).gate
    [] svc = CS /\ route = "/api/customers" -> CsApiCustomersHandler(req).gate
    [] OTHER -> CsApiProfitsHandler(req, "up").gate

\* C1: on every protected route of both services the gate allows a request
\* with verified claims exactly when the route's role predicate holds of the
\* claims, and a request with a session cookie gets the decision a bearer
\* header carrying the session's token gets on the same route.
C1_AllowIffPredicate ==
  /\ (resp.route \in GatedRoutes /\ resp.claims # NoClaims)
       => (resp.gate = "Allow" <=> RequiredRole(resp.svc, resp.claims))
  /\ (resp.route \in GatedRoutes /\ resp.claims # NoClaims /\ resp.gate # "Allow")
       => resp.gate = "Deny"
  /\ (resp.route \in GatedRoutes /\ resp.gate # "none"
        /\ resp.via = "cookie" /\ resp.found)
       => resp.gate
            = GateOf(resp.svc, resp.route,
                     BearerRequest(store[StoreKey(resp.svc, resp.sid)].grant))

C1_Witness ==
  /\ resp.svc = CS /\ resp.route = "/api/customers"
  /\ resp.via = "cookie" /\ resp.found
  /\ resp.claims = {"admin"} /\ resp.gate = "Allow"

\* C2: a logged-in user without the admin role who asks for a realm:admin
\* route of Admin Portal gets 403 Forbidden and is not sent to the login page.
C2_CsUserGets403AtAdmin ==
  (resp.svc = ADMIN /\ resp.route \in GatedRoutes
     /\ resp.claims # NoClaims /\ "admin" \notin resp.claims)
    => /\ resp.status = 403
       /\ resp.gate = "Deny"
       /\ resp.location = ""

C2_Witness ==
  /\ resp.svc = ADMIN /\ resp.route = "/dashboard"
  /\ resp.via = "cookie" /\ resp.found
  /\ resp.claims = {"cs"} /\ resp.status = 403

\* C3: on the CS Portal routes gated by hasRealmRole('cs') ||
\* hasRealmRole('admin'), a user holding admin is allowed, a user holding cs
\* is allowed, and a user holding neither is denied.
C3_AdminOrCsAllowedAtCs ==
  (resp.svc = CS /\ resp.route \in GatedRoutes /\ resp.claims # NoClaims)
    => /\ "admin" \in resp.claims => resp.gate = "Allow"
       /\ "cs" \in resp.claims => resp.gate = "Allow"
       /\ ("admin" \notin resp.claims /\ "cs" \notin resp.claims)
            => (resp.gate = "Deny" /\ resp.status = 403)

C3_Witness ==
  /\ resp.svc = CS /\ resp.route = "/dashboard"
  /\ resp.via = "cookie" /\ resp.found
  /\ resp.claims = {"admin"} /\ resp.gate = "Allow" /\ resp.status = 200

\* C4: a response carries the profits data only for a caller whose verified
\* roles contain admin, and the customers data only for a caller whose
\* verified roles contain cs or admin, directly or through the proxy routes.
C4_DataOnlyForRole ==
  /\ resp.data = "profits" => (resp.claims # NoClaims /\ "admin" \in resp.claims)
  /\ resp.data = "customers"
       => (resp.claims # NoClaims /\ resp.claims \cap {"cs", "admin"} # {})

C4_Witness ==
  /\ resp.svc = CS /\ resp.route = "/api/profits"
  /\ resp.data = "profits" /\ resp.up = 200

\* C5: a bearer token that fails verification (expired, bad signature, wrong
\* issuer) is never allowed on a protected route, and the role predicate is
\* decided on verified claims only.
C5_UnverifiedNeverAllowed ==
  /\ (resp.via = "bearer" /\ resp.tok # "valid")
       => (resp.gate \notin {"Allow", "Deny"} /\ resp.claims = NoClaims
           /\ resp.data \notin {"profits", "customers", "dashboard"})
  /\ resp.gate \in {"Allow", "Deny"}
       => (resp.claims # NoClaims /\ (resp.via = "bearer" => resp.tok = "valid"))

C5_Witness ==
  /\ resp.svc = ADMIN /\ resp.route = "/api/profits"
  /\ resp.via = "bearer" /\ resp.tok = "expired" /\ resp.gate = "Redirect"

C7_ProxyStatusAsDirect ==
  (resp.svc = CS /\ resp.route = "/api/profits" /\ resp.gate = "Allow"
     /\ "cs" \in resp.claims /\ "admin" \notin resp.claims /\ resp.up # 0)
    => /\ resp.status = 403
       /\ resp.status
            = AdminApiProfitsHandler(
                BearerRequest([roles |-> resp.claims, status |-> "valid"])).status

C7_Witness ==
  /\ resp.svc = CS /\ resp.route = "/api/profits" /\ resp.via = "cookie"
  /\ resp.claims = {"cs"} /\ resp.up = 403 /\ resp.status = 403

\* The keys that carry a service's own prefix.
AdminPortalKeys == {"admin-portal:sess:" \o x : x \in Sids}
CsPortalKeys == {"cs-portal:sess:" \o x : x \in Sids}
OwnKeys(svc) == IF svc = ADMIN THEN AdminPortalKeys ELSE CsPortalKeys

\* C8: whatever a service does changes only keys under its own prefix; in
\* particular a logout at CS Portal for identifier X leaves
\* admin-portal:sess:X as it was, and the other way round.
C8_StoreIsolation ==
  [][\A svc \in Services :
       resp'.svc = svc
         => \A k \in Keys : k \notin OwnKeys(svc) => store'[k] = store[k]]_vars

C8_Witness ==
  /\ resp.svc = CS /\ resp.route = "/auth/logout"
  /\ resp.sid = "s1" /\ resp.found
  /\ ~store["cs-portal:sess:s1"].exists
  /\ store["admin-portal:sess:s1"].exists

\* C9: a logout with an identifier whose session is already gone (a second
\* logout with the same identifier) answers as the first one did, with no
\* error, leaves no record under that identifier and adds none.
C9_LogoutIdempotent ==
  [][(resp'.route = "/auth/logout" /\ ~resp'.found)
       => /\ resp'.status = 302
          /\ resp'.location = "keycloak-logout"
          /\ store' = store
          /\ resp'.sid \in Sids => ~store'[StoreKey(resp'.svc, resp'.sid)].exists]_vars

C9_Witness ==
  /\ resp.route = "/auth/logout" /\ resp.again
  /\ resp.sid \in Sids /\ ~resp.found
  /\ resp.status = 302
  /\ ~store[StoreKey(resp.svc, resp.sid)].exists

\* C10: a session record exists exactly for the identifiers that were logged
\* in by a code exchange and have neither logged out nor expired since; a
\* browser that only saw the login redirect or a public page has none.
C10_RecordIffExchanged ==
  \A svc \in Services, x \in Sids :
    (store[StoreKey(svc, x)].exists \/ memoryStore[svc][x].exists)
      <=> <<svc, x>> \in exchanged

\* The key of identifier x in a service's own namespace.
NamespacedKey(svc, x) ==
  IF svc = ADMIN THEN "admin-portal:sess:" \o x ELSE "cs-portal:sess:" \o x

C16_SsoCreatesOwnRecord ==
  [][\A b \in Browsers :
       /\ (pending[b].stage = "login" /\ kc[b] # NoUser
             /\ ClientAllows(pending[b].svc, UserRoles(kc[b]))
             /\ resp' = resp /\ pending'[b] # pending[b])
            => /\ pending'[b] = [svc |-> pending[b].svc, stage |-> "callback-sso"]
               /\ kc' = kc
       /\ (pending[b].stage = "callback-sso" /\ resp' # resp
             /\ resp'.location = "clean-url")
            => LET svc == pending[b].svc
                   x == cookie'[b][svc]
               IN /\ resp'.silent /\ resp'.svc = svc
                  /\ pending'[b] = NoPending
                  /\ x \in Sids
                  /\ NamespacedKey(svc, x) \in DOMAIN store'
                  /\ store'[NamespacedKey(svc, x)] = SessRec(UserToken(kc[b]))
                  /\ \A k \in DOMAIN store \ OwnKeys(svc) : store'[k] = store[k]]_vars

C16_Witness ==
  /\ resp.silent /\ resp.svc = CS /\ resp.location = "clean-url"
  /\ kc["b1"] # NoUser
  /\ cookie["b1"][ADMIN] \in Sids /\ cookie["b1"][CS] \in Sids
  /\ store[NamespacedKey(ADMIN, cookie["b1"][ADMIN])].exists
  /\ store[NamespacedKey(CS, cookie["b1"][CS])].exists

\* C17: when a logout request has been answered, the store holds no record
\* under the request's session identifier, the browser's cookie is cleared,
\* and the answer is a redirect to Keycloak's end-session endpoint that
\* leads back to the service the logout was asked of.
C17_LogoutRemovesRecord ==
  \A b \in Browsers :
    resp.route = "/auth/logout"
      => /\ resp.sid \in Sids => ~store[NamespacedKey(resp.svc, resp.sid)].exists
         /\ cookie[b][resp.svc] = NoSid
         /\ resp.status = 302 /\ resp.location = "keycloak-logout"
         /\ pending[b] = [svc |-> resp.svc, stage |-> "logout"]

\* C18: a protected route answers a request without verified claims with a
\* redirect to Keycloak when it comes from a browser and with 401 when it
\* presents a bearer token; a bearer request is never redirected to login.
C18_BearerGets401 ==
  (resp.route \in GatedRoutes /\ resp.gate # "none" /\ resp.claims = NoClaims)
    => IF resp.via = "bearer"
         THEN resp.status = 401 /\ resp.location = ""
         ELSE resp.status = 302 /\ resp.location = "keycloak-auth"

\* C20: when the sibling cannot be reached during a proxy call, the proxy
\* route answers 502 or 503 with a generic message and does not return the
\* failure's detail.
C20_UpstreamUnavailableIs502 ==
  (resp.route \in {"/api/customers", "/api/profits"} /\ resp.gate = "Allow"
     /\ resp.error \in {"Failed to fetch customers", "Failed to fetch profits"}
     /\ resp.up = 0)
    => /\ resp.status \in {502, 503}
       /\ resp.message # "err.message"

\* C23: the session cookie handed to the browser is the session identifier
\* and nothing else; the tokens are in the service's record in the store, and
\* no answer to a request made with a session cookie carries a token.
C23_CookieIsOpaqueId ==
  /\ \A b \in Browsers, svc \in Services :
       cookie[b][svc] \in Sids \cup {NoSid}
  /\ \A k \in Keys : store[k].exists => store[k].grant \in Tokens
  /\ resp.via = "cookie"
       => /\ resp.data \in {"none", "index", "dashboard", "profits", "customers"}
          /\ resp.claims \in RoleSets \cup {NoClaims}
          /\ resp.message \in {"", "err.message",
                               "You do not have permission to access profits data (requires admin role)"}

C23_Witness ==
  \E b \in Browsers :
    /\ resp.svc = ADMIN /\ resp.route = "/api/profits" /\ resp.via = "cookie"
    /\ resp.data = "profits"
    /\ cookie[b][ADMIN] = resp.sid
    /\ store[StoreKey(ADMIN, resp.sid)].grant \in Tokens

\* C24: a request with an Authorization: Bearer header is decided from the
\* token alone: whatever session cookie came with it (none, a live session's,
\* a dead one's), the gate's decision is the one the request got.
C24_BearerIgnoresSession ==
  (resp.via = "bearer" /\ resp.route \in GatedRoutes)
    => \A c \in Sids \cup {NoSid} :
         GateOf(resp.svc, resp.route,
                [cookie |-> c,
                 bearer |-> [roles |-> IF resp.tok = "valid" THEN resp.claims
                                       ELSE Roles,
                             status |-> resp.tok]])
           = resp.gate

C24_Witness ==
  /\ resp.via = "bearer" /\ resp.svc = ADMIN /\ resp.route = "/api/profits"
  /\ resp.tok = "valid" /\ resp.gate = "Deny"
  /\ \E c \in Sids :
       /\ SessionFound(ADMIN, c)
       /\ "admin" \in store[StoreKey(ADMIN, c)].grant.roles

C29_ProxyForwardsCallersToken ==
  LET token == [roles |-> resp.claims, status |-> "valid"]
  IN /\ (resp.svc = ADMIN /\ resp.route = "/api/customers"
           /\ resp.gate = "Allow" /\ resp.up # 0)
          => resp.up = CsApiCustomersHandler(BearerRequest(token)).status
     /\ (resp.svc = CS /\ resp.route = "/api/profits"
           /\ resp.gate = "Allow" /\ resp.up # 0)
          => /\ resp.up = AdminApiProfitsHandler(BearerRequest(token)).status
             /\ resp.data = AdminApiProfitsHandler(BearerRequest(token)).data

C29_Witness ==
  /\ resp.svc = CS /\ resp.route = "/api/profits" /\ resp.gate = "Allow"
  /\ resp.via = "cookie" /\ resp.up = 403 /\ "admin" \notin resp.claims

\* C30: every creation and every destruction of a session is one write or
\* one delete on the external store.
C30_SingleStoreOperation ==
  /\ resp.code => resp.ops = 1
  /\ resp.route = "/auth/logout" => resp.ops = 1

\* The authentication state of a browser at a service: Authenticated when
\* its cookie names a stored session, AwaitingCallback when it was sent to
\* Keycloak by the service and has not come back, Anonymous otherwise.
AuthState(b, svc) ==
  IF SessionFound(svc, cookie[b][svc]) THEN "Authenticated"
  ELSE IF pending[b].svc = svc /\ pending[b].stage \in {"login"} \cup CallbackStages
    THEN "AwaitingCallback"
  ELSE "Anonymous"

\* Whether this step is the callback of browser b at service svc.
IsCallbackStep(b, svc) ==
  /\ pending[b].svc = svc /\ pending[b].stage \in CallbackStages
  /\ resp'.code /\ resp'.svc = svc
  /\ <<svc, cookie'[b][svc]>> \in exchanged'

\* Whether this step is a logout of browser b at service svc.
IsLogoutStep(b, svc) ==
  resp' # resp /\ resp'.route = "/auth/logout" /\ resp'.svc = svc

\* C27 as stated: the state changes only by a redirect (Anonymous to
\* AwaitingCallback), a callback (AwaitingCallback to Authenticated), a token
\* refresh, or a logout (any state to Anonymous).
C27_OnlyListedTransitions ==
  [][\A b \in Browsers, svc \in Services :
       LET from == AuthState(b, svc)
           to == AuthState(b, svc)'
       IN from # to
            => \/ from = "Anonymous" /\ to = "AwaitingCallback"
                    /\ resp'.location = "keycloak-auth" /\ resp'.svc = svc
               \/ from = "AwaitingCallback" /\ to = "Authenticated"
                    /\ IsCallbackStep(b, svc)
               \/ to = "Anonymous" /\ IsLogoutStep(b, svc)]_vars

\* C27, amended: besides the transitions of the claim, a session that
\* expires in the store takes Authenticated to Anonymous (to AwaitingCallback
\* when the browser is in a login at that moment), and a login that is
\* refused by Keycloak or left for another page takes AwaitingCallback to
\* Anonymous; Authenticated is reached by a callback and by nothing else.
C27_TransitionsWithExpiry ==
  [][\A b \in Browsers, svc \in Services :
       LET from == AuthState(b, svc)
           to == AuthState(b, svc)'
       IN from # to
            => \/ from = "Anonymous" /\ to = "AwaitingCallback"
                    /\ resp'.location = "keycloak-auth" /\ resp'.svc = svc
               \/ from = "AwaitingCallback" /\ to = "Authenticated"
                    /\ IsCallbackStep(b, svc)
               \/ to = "Anonymous" /\ IsLogoutStep(b, svc)
               \/ from = "Authenticated" /\ to \in {"Anonymous", "AwaitingCallback"}
                    /\ ~store'[StoreKey(svc, cookie[b][svc])].exists
                    /\ resp' = resp /\ pending' = pending
                    /\ cookie' = cookie
               \/ from = "AwaitingCallback" /\ to = "Anonymous"
                    /\ pending'[b] # pending[b]
                    /\ (pending'[b].svc # svc \/ pending'[b].stage = "logout")]_vars

C27_Witness ==
  \E b \in Browsers :
    /\ resp.code /\ resp.svc = CS
    /\ AuthState(b, CS) = "Authenticated"
    /\ AuthState(b, ADMIN) = "Anonymous"
    /\ cookie[b][ADMIN] \in Sids

C31_TokenSetChangesOnlyByLoginOrLogout ==
  /\ resp.wrote # {}
       => /\ resp.code \/ resp.route = "/auth/logout"
          /\ resp.wrote \subseteq OwnKeys(resp.svc)
  /\ (resp.code /\ resp.wrote # {})
       => \A k \in resp.wrote :
            store[k].exists /\ \E b \in Browsers : store[k].grant = UserToken(kc[b])
  /\ \A k \in Keys :
       store[k].exists => \E b \in Browsers : store[k].grant = UserToken(person[b])

C31_Witness ==
  /\ resp.svc = CS /\ resp.route = "/api/profits" /\ resp.via = "cookie"
  /\ resp.found /\ resp.up = 200 /\ resp.wrote = {}
  /\ \E x \in Sids : store[StoreKey(ADMIN, x)].exists

\* C34: a request that presents a bearer token writes nothing to the store
\* of the service that receives it, and a proxy call writes nothing to the
\* store of the sibling it reaches.
C34_BearerRequestWritesNothing ==
  /\ resp.via = "bearer" => resp.wrote = {}
  /\ (resp.route \in GatedRoutes /\ resp.up # 0)
       => resp.wrote \cap OwnKeys(Sibling(resp.svc)) = {}

C34_Witness ==
  /\ resp.via = "bearer" /\ resp.svc = CS /\ resp.route = "/api/profits"
  /\ resp.tok = "valid" /\ resp.up = 200 /\ resp.wrote = {}
  /\ \E x \in Sids : store[StoreKey(ADMIN, x)].exists

\* C35: /auth/logout always ends by clearing the cookie and redirecting to
\* Keycloak's end-session endpoint, whatever destroy and del reported; the
\* record may still be in the store when it does.
C35_LogoutAlwaysRedirects ==
  resp.route = "/auth/logout"
    => /\ resp.status = 302 /\ resp.location = "keycloak-logout"
       /\ resp.error = ""
       /\ \A b \in Browsers : cookie[b][resp.svc] = NoSid

C35_Witness ==
  /\ resp.route = "/auth/logout" /\ resp.status = 302
  /\ resp.sid \in Sids /\ resp.found
  /\ store[StoreKey(resp.svc, resp.sid)].exists
  /\ \A b \in Browsers : cookie[b][resp.svc] = NoSid

\* C36: a logout with session identifier X at service S changes no key of the
\* store but '<S>:sess:X'.
C36_LogoutDeletesOnlyItsKey ==
  resp.route = "/auth/logout"
    => /\ resp.wrote \subseteq {NamespacedKey(resp.svc, resp.sid)}
       /\ \A k \in resp.wrote : ~store[k].exists

C36_Witness ==
  /\ resp.route = "/auth/logout" /\ resp.sid \in Sids
  /\ resp.wrote = {NamespacedKey(resp.svc, resp.sid)}
  /\ \E x \in Sids : x # resp.sid /\ store[StoreKey(resp.svc, x)].exists
  /\ \E x \in Sids : store[StoreKey(Sibling(resp.svc), x)].exists

\* C37: the Admin Portal /api/customers proxy never passes the sibling's
\* status on: it answers 200 with the sibling's JSON whenever the body parses
\* as JSON, whatever the status, and 500 with an error message otherwise.
C37_AdminProxyNeverForwardsStatus ==
  (resp.svc = ADMIN /\ resp.route = "/api/customers" /\ resp.gate = "Allow")
    => /\ resp.status \in {200, 500}
       /\ resp.fetched = "json"
            => resp.status = 200 /\ resp.json /\ resp.data = "upstream-json"
       /\ resp.fetched \in {"text", "threw"}
            => /\ resp.status = 500 /\ resp.data = "none"
               /\ resp.error = "Failed to fetch customers"
               /\ resp.message = "err.message"

C37_Witness ==
  /\ resp.svc = ADMIN /\ resp.route = "/api/customers" /\ resp.gate = "Allow"
  /\ resp.fetched = "json" /\ resp.up = 403
  /\ resp.status = 200 /\ resp.data = "upstream-json"

\* C38: the CS Portal /api/profits proxy answers every sibling response that
\* is not 2xx, 401 and 5xx included, with the sibling's status and the fixed
\* body {error: 'Access Denied', message}; the sibling's body is not read.
C38_CsProxyMapsEveryNonOk ==
  (/\ resp.svc = CS /\ resp.route = "/api/profits" /\ resp.gate = "Allow"
   /\ resp.fetched \in {"json", "text"}
   /\ ~(resp.up >= 200 /\ resp.up <= 299))
    => /\ resp.status = resp.up
       /\ resp.json /\ resp.data = "none"
       /\ resp.error = "Access Denied"
       /\ resp.message =
            "You do not have permission to access profits data (requires admin role)"

C38_Witness ==
  /\ resp.svc = CS /\ resp.route = "/api/profits" /\ resp.gate = "Allow"
  /\ resp.fetched = "json" /\ resp.up = 503
  /\ resp.status = 503 /\ resp.error = "Access Denied" /\ resp.data = "none"

\* C39: a proxy route calls its sibling only after its own gate has allowed
\* the request: a caller who is not authenticated, or whose roles fail the
\* route's predicate, is answered without any request to the sibling.
C39_ProxyCallsOnlyAfterGate ==
  \A i \in DOMAIN calls :
    /\ (calls[i].stage = "suspended" \/ calls[i].net # "-")
         => calls[i].gate = "Allow" /\ calls[i].route = ProxyRoute(calls[i].svc)
    /\ calls[i].gate \in {"Redirect", "Deny"}
         => /\ calls[i].stage = "done" /\ calls[i].net = "-"
            /\ calls[i].status = IF calls[i].gate = "Deny" THEN 403 ELSE 302

C39_Witness ==
  \E i, j \in DOMAIN calls :
    /\ calls[i].route = ProxyRoute(calls[i].svc) /\ calls[i].gate = "Deny"
    /\ calls[i].stage = "done" /\ calls[i].net = "-"
    /\ calls[j].route = ProxyRoute(calls[j].svc) /\ calls[j].gate = "Allow"
    /\ calls[j].stage = "done" /\ calls[j].net = "up"

====
